---- MODULE Spec2Model ----
(***************************************************************************)
(* Model of training_pipeline/pipeline/pipeline.py: the factory function   *)
(* create_pipeline, which builds nine TFX components, wires their channels *)
(* and wraps them in a pipeline.Pipeline.                                  *)
(*                                                                         *)
(* The function is straight-line code.  Each statement group that builds   *)
(* and appends one component is one action; an exception raised by any     *)
(* expression of the group ends the call.  Several calls are made in       *)
(* sequence because the mapping passed as hf_pusher_args is mutated in     *)
(* place and is seen again by the next call.                               *)
(***************************************************************************)
EXTENDS Integers, Sequences, FiniteSets, TLC

VARIABLES
    pc,           \* position of the running call inside create_pipeline
    calls,        \* number of calls of create_pipeline made so far
    args,         \* the arguments of the running call
    locals,       \* the local variables example_gen, statistics_gen, ...
    components,   \* the local list `components`
    hf_dict,      \* the caller's dict object passed as hf_pusher_args
    result,       \* <<p>> once the call returned pipeline p, else <<>>
    failedAt      \* the statement group that raised, "" if none did

vars == <<pc, calls, args, locals, components, hf_dict, result, failedAt>>

\* Number of calls of create_pipeline explored.
MaxCalls == 2

(***************************************************************************)
(* Values.  Every Python value the function handles is opaque to it; a     *)
(* value is a record telling what it is.  A channel is identified by the   *)
(* call that created it, the id of the component that produces it and its  *)
(* output key; Channel(type=T) built directly has no producer.             *)
(***************************************************************************)
None == [kind |-> "None", call |-> 0, producer |-> "", name |-> ""]

Const(kind, name) == [kind |-> kind, call |-> 0, producer |-> "", name |-> name]

Channel(call, type) ==
    [kind |-> "Channel", call |-> call, producer |-> "", name |-> type]

NoInputs == [k \in {} |-> None]

Unbound ==
    [type |-> "", id |-> "", call |-> 0, inputs |-> NoInputs, beam |-> None]

\* component.outputs[key]
outputs(c, key) ==
    [kind |-> "Channel", call |-> c.call, producer |-> c.id, name |-> key]

Component(type, call, inputs) ==
    [type |-> type, id |-> type, call |-> call, inputs |-> inputs, beam |-> None]

\* component.with_beam_pipeline_args(beam_args)
with_beam_pipeline_args(c, beam_args) == [c EXCEPT !.beam = beam_args]

\* component.with_id(id)
with_id(c, id) == [c EXCEPT !.id = id]

\* d[k] = v on a dict
SetItem(d, k, v) ==
    [x \in DOMAIN d \cup {k} |-> IF x = k THEN v ELSE d[x]]

SetDefault(d, k, v) == IF k \in DOMAIN d THEN d ELSE SetItem(d, k, v)

(***************************************************************************)
(* Argument domains.                                                       *)
(***************************************************************************)
ModuleKeys == {"preprocessing_fn", "training_fn"}

ModulesDicts ==
    UNION {[D -> {Const("str", "module_path")}] : D \in SUBSET ModuleKeys}

TrainingArgsValues == {None, Const("dict", "ai_platform_training_args")}
ServingArgsValues  == {None, Const("dict", "ai_platform_serving_args")}
MetadataValues     == {None, Const("ConnectionConfig", "metadata")}
ExampleGenBeamValues ==
    {None, Const("list", "[]"), Const("list", "example_gen_beam_args")}
TransformBeamValues ==
    {None, Const("list", "[]"), Const("list", "transform_beam_args")}

\* hf_pusher_args is None or a reference to the caller's dict object.
HFArgValues == {"None", "dict"}

HFKeys == {"username", "model", "model_blessing"}

\* What the caller's dict may hold before the first call.
HFInitialValue(k) ==
    IF k = "username" THEN Const("str", "hf_user") ELSE Const("str", "stale")

\* Empty, holding only another key, or already holding the two keys that
\* create_pipeline writes.
HFInitialDomains == {{}, {"username"}, HFKeys}

HFInitialDicts ==
    {[k \in D |-> HFInitialValue(k)] : D \in HFInitialDomains}

ArgsValues ==
    [pipeline_name : {Const("str", "pipeline_name")},
     pipeline_root : {Const("str", "pipeline_root")},
     data_path : {Const("str", "data_path")},
     modules : ModulesDicts,
     train_args : {Const("TrainArgs", "train_args")},
     eval_args : {Const("EvalArgs", "eval_args")},
     eval_configs : {Const("EvalConfig", "eval_configs")},
     metadata_connection_config : MetadataValues,
     ai_platform_training_args : TrainingArgsValues,
     ai_platform_serving_args : ServingArgsValues,
     example_gen_beam_args : ExampleGenBeamValues,
     transform_beam_args : TransformBeamValues,
     hf_pusher_args : HFArgValues]

NoArgs == CHOOSE a \in ArgsValues : TRUE

LocalNames ==
    {"example_gen", "statistics_gen", "schema_gen", "transform", "trainer",
     "model_resolver", "evaluator", "pusher", "hf_pusher"}

NoLocals == [n \in LocalNames |-> Unbound]

(***************************************************************************)
(* Control flow.  Steps is the order of the statement groups.              *)
(***************************************************************************)
Steps ==
    <<"example_gen", "statistics_gen", "schema_gen", "transform", "trainer",
      "model_resolver", "evaluator", "pusher", "hf_pusher_args", "hf_pusher",
      "pipeline">>

StepIndex(step) == CHOOSE i \in 1..Len(Steps) : Steps[i] = step

Succ(step) ==
    IF StepIndex(step) = Len(Steps) THEN "returned"
    ELSE Steps[StepIndex(step) + 1]

Swallow(step, ok) == Succ(step)

\* No try/except anywhere: an exception leaves the function at once.
After(step, ok) == IF ok THEN Succ(step) ELSE "raised"

(***************************************************************************)
(* The component constructions, lines 55-122.                              *)
(***************************************************************************)
ImportExampleGenTruthy(a, c) ==
    LET eg == Component("ImportExampleGen", c,
                [input_base |-> a.data_path,
                 input_config |-> Const("Input", "train/eval splits")])
    IN  IF a.example_gen_beam_args \notin {None, Const("list", "[]")}
        THEN with_beam_pipeline_args(eg, a.example_gen_beam_args)
        ELSE eg

ImportExampleGen(a, c) ==
    LET eg == Component("ImportExampleGen", c,
                [input_base |-> a.data_path,
                 input_config |-> Const("Input", "train/eval splits")])
    IN  IF a.example_gen_beam_args # None
        THEN with_beam_pipeline_args(eg, a.example_gen_beam_args)
        ELSE eg

StatisticsGen(l, c) ==
    Component("StatisticsGen", c,
        [examples |-> outputs(l.example_gen, "examples")])

SchemaGen(l, c) ==
    Component("SchemaGen", c,
        [statistics |-> outputs(l.statistics_gen, "statistics")])

Transform(a, l, c) ==
    LET tr == Component("Transform", c,
                [examples |-> outputs(l.example_gen, "examples"),
                 schema |-> outputs(l.schema_gen, "schema"),
                 preprocessing_fn |-> a.modules["preprocessing_fn"]])
    IN  IF a.transform_beam_args # None
        THEN with_beam_pipeline_args(tr, a.transform_beam_args)
        ELSE tr

VertexTrainerSwapped(a, l, c) ==
    Component("VertexTrainer", c,
        [run_fn |-> a.modules["training_fn"],
         transformed_examples |-> outputs(l.transform, "transformed_examples"),
         transform_graph |-> outputs(l.transform, "transform_graph"),
         schema |-> outputs(l.schema_gen, "schema"),
         train_args |-> a.train_args,
         eval_args |-> a.eval_args,
         custom_config |-> a.ai_platform_serving_args])

VertexTrainer(a, l, c) ==
    Component("VertexTrainer", c,
        [run_fn |-> a.modules["training_fn"],
         transformed_examples |-> outputs(l.transform, "transformed_examples"),
         transform_graph |-> outputs(l.transform, "transform_graph"),
         schema |-> outputs(l.schema_gen, "schema"),
         train_args |-> a.train_args,
         eval_args |-> a.eval_args,
         custom_config |-> a.ai_platform_training_args])

Resolver(c) ==
    with_id(
        Component("Resolver", c,
            [strategy_class |-> Const("class", "LatestBlessedModelResolver"),
             model |-> Channel(c, "Model"),
             model_blessing |-> Channel(c, "ModelBlessing")]),
        "latest_blessed_model_resolver")

EvaluatorSwapped(a, l, c) ==
    Component("Evaluator", c,
        [examples |-> outputs(l.example_gen, "examples"),
         model |-> outputs(l.model_resolver, "model"),
         baseline_model |-> outputs(l.trainer, "model"),
         eval_config |-> a.eval_configs])

EvaluatorNoBaseline(a, l, c) ==
    Component("Evaluator", c,
        [examples |-> outputs(l.example_gen, "examples"),
         model |-> outputs(l.trainer, "model"),
         baseline_model |-> outputs(l.trainer, "model"),
         eval_config |-> a.eval_configs])

Evaluator(a, l, c) ==
    Component("Evaluator", c,
        [examples |-> outputs(l.example_gen, "examples"),
         model |-> outputs(l.trainer, "model"),
         baseline_model |-> outputs(l.model_resolver, "model"),
         eval_config |-> a.eval_configs])

VertexPusherBaseline(a, l, c) ==
    Component("VertexPusher", c,
        [model |-> outputs(l.model_resolver, "model"),
         model_blessing |-> outputs(l.evaluator, "blessing"),
         custom_config |-> a.ai_platform_serving_args])

VertexPusher(a, l, c) ==
    Component("VertexPusher", c,
        [model |-> outputs(l.trainer, "model"),
         model_blessing |-> outputs(l.evaluator, "blessing"),
         custom_config |-> a.ai_platform_serving_args])

\* hf_pusher_args[...] = ... raises TypeError on None.
SubscriptableAlways(a) == TRUE

Subscriptable(a) == a.hf_pusher_args # "None"

HFCopyKeepExisting(d, l) ==
    SetDefault(SetDefault(d, "model", outputs(l.trainer, "model")),
               "model_blessing", outputs(l.evaluator, "blessing"))

\* Lines 119-120, the two assignments into the caller's dict.
HFCopy(d, l) ==
    SetItem(SetItem(d, "model", outputs(l.trainer, "model")),
            "model_blessing", outputs(l.evaluator, "blessing"))

\* HFPusher(**hf_pusher_args): the keyword arguments are the dict's items.
HFPusher(d, c) == Component("HFPusher", c, d)

AppendFront(cs, c) == <<c>> \o cs

\* components.append(c)
append(cs, c) == Append(cs, c)

PipelineCacheFromMetadata(a, cs) ==
    [pipeline_name |-> a.pipeline_name,
     pipeline_root |-> a.pipeline_root,
     components |-> cs,
     enable_cache |-> (a.metadata_connection_config # None),
     metadata_connection_config |-> a.metadata_connection_config]

\* pipeline.Pipeline(...), lines 124-130
Pipeline(a, cs) ==
    [pipeline_name |-> a.pipeline_name,
     pipeline_root |-> a.pipeline_root,
     components |-> cs,
     enable_cache |-> TRUE,
     metadata_connection_config |-> a.metadata_connection_config]

(***************************************************************************)
(* The state machine.                                                      *)
(***************************************************************************)
Init ==
    /\ pc = "idle"
    /\ calls = 0
    /\ args = NoArgs
    /\ locals = NoLocals
    /\ components = <<>>
    /\ hf_dict \in HFInitialDicts
    /\ result = <<>>
    /\ failedAt = ""

\* A caller invokes create_pipeline; line 44 sets components = [].
create_pipeline ==
    /\ pc \in {"idle", "returned", "raised"}
    /\ calls < MaxCalls
    /\ \E a \in ArgsValues : args' = a
    /\ calls' = calls + 1
    /\ locals' = NoLocals
    /\ components' = <<>>
    /\ result' = <<>>
    /\ failedAt' = ""
    /\ pc' = "example_gen"
    /\ UNCHANGED hf_dict

\* One statement group: evaluate the constructor call, bind the local
\* variable and append it.  ok is FALSE when an expression of the group
\* raises.
Build(step, ok, c) ==
    /\ pc = step
    /\ pc' = After(step, ok)
    /\ IF ok
       THEN /\ locals' = [locals EXCEPT ![step] = c]
            /\ components' = append(components, c)
            /\ failedAt' = failedAt
       ELSE /\ failedAt' = step
            /\ UNCHANGED <<locals, components>>
    /\ UNCHANGED <<calls, args, hf_dict, result>>

\* Lines 55-58
BuildExampleGen ==
    \E ctor \in BOOLEAN :
        Build("example_gen", ctor, ImportExampleGen(args, calls))

\* Lines 62-63
BuildStatisticsGen ==
    \E ctor \in BOOLEAN :
        Build("statistics_gen", ctor, StatisticsGen(locals, calls))

\* Lines 65-66
BuildSchemaGen ==
    \E ctor \in BOOLEAN :
        Build("schema_gen", ctor, SchemaGen(locals, calls))

\* Lines 69-76; modules["preprocessing_fn"] raises KeyError when absent.
BuildTransform ==
    \E ctor \in BOOLEAN :
        LET ok == ctor /\ "preprocessing_fn" \in DOMAIN args.modules
        IN  Build("transform", ok,
                  IF ok THEN Transform(args, locals, calls) ELSE Unbound)

\* Lines 79-89; modules["training_fn"] raises KeyError when absent.
BuildTrainer ==
    \E ctor \in BOOLEAN :
        LET ok == ctor /\ "training_fn" \in DOMAIN args.modules
        IN  Build("trainer", ok,
                  IF ok THEN VertexTrainer(args, locals, calls) ELSE Unbound)

\* Lines 92-97
BuildResolver ==
    \E ctor \in BOOLEAN :
        Build("model_resolver", ctor, Resolver(calls))

\* Lines 100-106
BuildEvaluator ==
    \E ctor \in BOOLEAN :
        Build("evaluator", ctor, Evaluator(args, locals, calls))

\* Lines 109-115
BuildPusher ==
    \E ctor \in BOOLEAN :
        Build("pusher", ctor, VertexPusher(args, locals, calls))

\* Lines 119-120
CopyIntoHFArgs ==
    /\ pc = "hf_pusher_args"
    /\ LET ok == Subscriptable(args)
       IN  /\ pc' = After("hf_pusher_args", ok)
           /\ IF ok
              THEN /\ hf_dict' = HFCopy(hf_dict, locals)
                   /\ failedAt' = failedAt
              ELSE /\ failedAt' = "hf_pusher_args"
                   /\ UNCHANGED hf_dict
    /\ UNCHANGED <<calls, args, locals, components, result>>

\* Lines 121-122
BuildHFPusher ==
    \E ctor \in BOOLEAN :
        Build("hf_pusher", ctor, HFPusher(hf_dict, calls))

\* Lines 124-130
ReturnPipeline ==
    /\ pc = "pipeline"
    /\ \E ctor \in BOOLEAN :
        /\ pc' = After("pipeline", ctor)
        /\ IF ctor
           THEN /\ result' = <<Pipeline(args, components)>>
                /\ failedAt' = failedAt
           ELSE /\ failedAt' = "pipeline"
                /\ UNCHANGED result
    /\ UNCHANGED <<calls, args, locals, components, hf_dict>>

Next ==
    \/ create_pipeline
    \/ BuildExampleGen
    \/ BuildStatisticsGen
    \/ BuildSchemaGen
    \/ BuildTransform
    \/ BuildTrainer
    \/ BuildResolver
    \/ BuildEvaluator
    \/ BuildPusher
    \/ CopyIntoHFArgs
    \/ BuildHFPusher
    \/ ReturnPipeline

Spec == Init /\ [][Next]_vars

(***************************************************************************)
(* Properties.                                                             *)
(***************************************************************************)
Returned == pc = "returned" /\ Len(result) = 1

\* The component list handed to the returned pipeline.
cs == result[1].components

Types(s) == [i \in 1..Len(s) |-> s[i].type]

ExpectedTypes ==
    <<"ImportExampleGen", "StatisticsGen", "SchemaGen", "Transform",
      "VertexTrainer", "Resolver", "Evaluator", "VertexPusher", "HFPusher">>

IsChannel(v) == v.kind = "Channel"

\* Component c takes as input a channel produced by component p.
Consumes(c, p) ==
    \E k \in DOMAIN c.inputs :
        /\ IsChannel(c.inputs[k])
        /\ c.inputs[k] = outputs(p, c.inputs[k].name)

\* C1: whenever create_pipeline returns, the pipeline's component list is
\* the local list and holds exactly the nine components, once each, in the
\* order ImportExampleGen, StatisticsGen, SchemaGen, Transform,
\* VertexTrainer, Resolver (latest_blessed_model_resolver), Evaluator,
\* VertexPusher, HFPusher, whatever the arguments were.
C1_NineComponentsInOrder ==
    pc = "returned" =>
        /\ Len(result) = 1
        /\ cs = components
        /\ Types(cs) = ExpectedTypes
        /\ cs[6].id = "latest_blessed_model_resolver"

C1_Witness ==
    /\ Returned
    /\ calls = MaxCalls
    /\ args.example_gen_beam_args # None
    /\ args.ai_platform_training_args = None

\* C2: every returned pipeline has enable_cache = TRUE, for every
\* combination of arguments.
C2_CacheAlwaysEnabled ==
    Len(result) = 1 => result[1].enable_cache = TRUE

C2_Witness ==
    /\ Returned
    /\ args.metadata_connection_config = None
    /\ args.ai_platform_serving_args = None

\* C3: with_beam_pipeline_args has been invoked on the ingestion component
\* iff example_gen_beam_args is not None (then with that list), on the
\* transform component iff transform_beam_args is not None (then with that
\* list), and on no other component.
C3_BeamArgsOnlyWhenSupplied ==
    \A i \in 1..Len(components) :
        components[i].beam =
            IF components[i].type = "ImportExampleGen"
            THEN args.example_gen_beam_args
            ELSE IF components[i].type = "Transform"
                 THEN args.transform_beam_args
                 ELSE None

C3_Witness ==
    /\ Returned
    /\ args.example_gen_beam_args = Const("list", "[]")
    /\ args.transform_beam_args = None
    /\ cs[1].beam = Const("list", "[]")
    /\ cs[4].beam = None

\* The wiring listed by C4, on the returned component list.
C4_Wiring ==
    /\ cs[2].inputs["examples"] = outputs(cs[1], "examples")
    /\ cs[4].inputs["examples"] = outputs(cs[1], "examples")
    /\ cs[7].inputs["examples"] = outputs(cs[1], "examples")
    /\ cs[3].inputs["statistics"] = outputs(cs[2], "statistics")
    /\ cs[4].inputs["schema"] = outputs(cs[3], "schema")
    /\ cs[5].inputs["schema"] = outputs(cs[3], "schema")
    /\ cs[5].inputs["transformed_examples"]
           = outputs(cs[4], "transformed_examples")
    /\ cs[5].inputs["transform_graph"] = outputs(cs[4], "transform_graph")
    /\ cs[7].inputs["model"] = outputs(cs[5], "model")
    /\ cs[7].inputs["baseline_model"] = outputs(cs[6], "model")
    /\ \A i \in 1..Len(cs) : cs[i].call = calls

ProducedEarlier(i, v) ==
    \E j \in 1..(i - 1) : v = outputs(cs[j], v.name)

\* C4 as stated: in every returned pipeline the listed wiring holds and
\* every channel consumed by a component is produced by a component that
\* appears earlier in the component list.
C4_Original ==
    Returned =>
        /\ C4_Wiring
        /\ \A i \in 1..Len(cs) : \A k \in DOMAIN cs[i].inputs :
               IsChannel(cs[i].inputs[k]) => ProducedEarlier(i, cs[i].inputs[k])

\* C4 amended: in every returned pipeline the listed wiring holds and every
\* consumed channel is produced by a component that appears earlier in the
\* list, except the Resolver's own two inputs model and model_blessing,
\* which are fresh channels produced by no component.
C4_WiringAndProducers ==
    Returned =>
        /\ C4_Wiring
        /\ \A i \in 1..Len(cs) : \A k \in DOMAIN cs[i].inputs :
               IsChannel(cs[i].inputs[k]) =>
                   \/ ProducedEarlier(i, cs[i].inputs[k])
                   \/ /\ cs[i].type = "Resolver"
                      /\ k \in {"model", "model_blessing"}
                      /\ cs[i].inputs[k].producer = ""
                      /\ \A j \in 1..Len(cs) : ~Consumes(cs[i], cs[j])

C4_Witness ==
    /\ Returned
    /\ cs[6].inputs["model"] = Channel(calls, "Model")
    /\ cs[7].inputs["baseline_model"].producer = "latest_blessed_model_resolver"
    /\ cs[9].inputs["model"].producer = "VertexTrainer"

\* C5 as stated: along the chain ingest, statistics, schema, transform,
\* train, resolve-baseline, evaluate, push, every stage consumes a channel
\* produced by the stage immediately before it.
C5_Original ==
    Returned =>
        /\ \A i \in 1..7 : Consumes(cs[i + 1], cs[i])
        /\ Consumes(cs[9], cs[7])

\* C5 amended: every stage of the chain consumes a channel produced by the
\* stage immediately before it, except resolve-baseline: the Resolver
\* consumes no channel produced by the trainer or by any other component.
C5_ChainExceptResolver ==
    Returned =>
        /\ \A i \in (1..7) \ {5} : Consumes(cs[i + 1], cs[i])
        /\ Consumes(cs[9], cs[7])
        /\ \A j \in 1..Len(cs) : ~Consumes(cs[6], cs[j])

C5_Witness ==
    /\ Returned
    /\ Consumes(cs[7], cs[6])
    /\ ~Consumes(cs[6], cs[5])
    /\ Consumes(cs[5], cs[4])

\* C6: the trainer's custom_config is exactly ai_platform_training_args and
\* the platform pusher's is exactly ai_platform_serving_args, so each has a
\* configuration only when its own argument is not None, never the other's.
C6_CloudConfigsOnlyWhenSupplied ==
    \A i \in 1..Len(components) :
        /\ components[i].type = "VertexTrainer" =>
               components[i].inputs["custom_config"]
                   = args.ai_platform_training_args
        /\ components[i].type = "VertexPusher" =>
               components[i].inputs["custom_config"]
                   = args.ai_platform_serving_args

C6_Witness ==
    /\ Returned
    /\ args.ai_platform_training_args = None
    /\ args.ai_platform_serving_args # None
    /\ cs[5].inputs["custom_config"] = None
    /\ cs[8].inputs["custom_config"] = args.ai_platform_serving_args

\* Number of components appended before the statement group `step`.
AppendedBefore(step) ==
    Cardinality({i \in 1..(StepIndex(step) - 1) : Steps[i] # "hf_pusher_args"})

\* C7: a failure of any step ends the call at that step: nothing after it
\* has run, no pipeline is returned, and a pipeline that is returned wraps
\* the complete list; a modules mapping without preprocessing_fn or
\* training_fn never gets past the step that reads the key.
C7_FailuresPropagate ==
    /\ failedAt # "" => pc = "raised" /\ result = <<>>
    /\ pc = "raised" =>
           /\ failedAt # ""
           /\ Len(components) = AppendedBefore(failedAt)
    /\ result # <<>> => pc = "returned" /\ Len(result[1].components) = 9
    /\ Len(components) >= 4 => "preprocessing_fn" \in DOMAIN args.modules
    /\ Len(components) >= 5 => "training_fn" \in DOMAIN args.modules

C7_Witness ==
    /\ pc = "raised"
    /\ failedAt = "trainer"
    /\ "training_fn" \notin DOMAIN args.modules
    /\ Len(components) = 4
    /\ result = <<>>

\* C8: in every returned pipeline VertexPusher and HFPusher both get the
\* Trainer's model output as model and the Evaluator's blessing output as
\* model_blessing, and no input of either is the Resolver's model output.
C8_PushersGatedByBlessing ==
    Returned =>
        \A i \in {8, 9} :
            /\ cs[i].inputs["model"] = outputs(cs[5], "model")
            /\ cs[i].inputs["model_blessing"] = outputs(cs[7], "blessing")
            /\ \A k \in DOMAIN cs[i].inputs :
                   cs[i].inputs[k] # outputs(cs[6], "model")

C8_Witness ==
    /\ Returned
    /\ cs[8].inputs["model"] = cs[9].inputs["model"]
    /\ cs[8].inputs["model_blessing"].producer = "Evaluator"
    /\ cs[7].inputs["baseline_model"] = outputs(cs[6], "model")

C9_AfterReturn ==
    Returned =>
        /\ cs[5].call = calls /\ cs[7].call = calls
        /\ hf_dict["model"] = outputs(cs[5], "model")
        /\ hf_dict["model_blessing"] = outputs(cs[7], "blessing")
        /\ cs[9].inputs = hf_dict

C9_OtherKeysKept ==
    \A k \in HFKeys \ {"model", "model_blessing"} :
        /\ k \in DOMAIN hf_dict <=> k \in DOMAIN hf_dict'
        /\ k \in DOMAIN hf_dict => hf_dict'[k] = hf_dict[k]

\* C9: after a call that returns, the caller's dict holds under model and
\* model_blessing the channels of this call's Trainer and Evaluator
\* (whatever was stored there before, also by an earlier call), the
\* HFPusher of the call is built from exactly that dict, and no step ever
\* changes another key of the dict.
C9_CopiesIntoCallersDict ==
    /\ []C9_AfterReturn
    /\ [][C9_OtherKeysKept]_vars

C9_Witness ==
    /\ Returned
    /\ calls = MaxCalls
    /\ calls > 1
    /\ "username" \in DOMAIN hf_dict
    /\ hf_dict["model"].call = calls
    /\ cs[9].inputs["model_blessing"].call = calls

OmitsHFArgs == calls > 0 /\ args.hf_pusher_args = "None"

\* C10 as stated: every call without hf_pusher_args ends by constructing
\* the first eight components and then raising at the copy into
\* hf_pusher_args; a pipeline is returned only for a mapping.
C10_Original ==
    /\ (OmitsHFArgs /\ pc \in {"raised", "returned"}) =>
           /\ pc = "raised"
           /\ failedAt = "hf_pusher_args"
           /\ Len(components) = 8
    /\ pc = "returned" => args.hf_pusher_args = "dict"

C10_NeverReturns ==
    /\ OmitsHFArgs =>
           /\ result = <<>>
           /\ pc \notin {"hf_pusher", "pipeline", "returned"}
           /\ \A i \in 1..Len(components) : components[i].type # "HFPusher"
           /\ pc = "raised" =>
                  /\ StepIndex(failedAt) <= StepIndex("hf_pusher_args")
                  /\ failedAt = "hf_pusher_args" => Len(components) = 8
    /\ pc = "returned" => args.hf_pusher_args = "dict"

C10_CopyRaises ==
    (OmitsHFArgs /\ pc = "hf_pusher_args") =>
        /\ Len(components) = 8
        /\ pc' = "raised"
        /\ failedAt' = "hf_pusher_args"

\* C10 amended: every call without hf_pusher_args fails and produces no
\* HFPusher and no pipeline; unless an earlier step raises first, the first
\* eight components are constructed and then the copy into hf_pusher_args
\* raises.  A pipeline is returned only for a mapping.
C10_NoneAlwaysFails ==
    /\ []C10_NeverReturns
    /\ [][C10_CopyRaises]_vars

C10_Witness ==
    /\ OmitsHFArgs
    /\ pc = "raised"
    /\ failedAt = "hf_pusher_args"
    /\ Len(components) = 8
    /\ result = <<>>
====
